---- MODULE Spec2Model ----
(***************************************************************************)
(* Weekly Data Processor (src/app.py): the record pipeline of               *)
(* clean_and_process_dataframe, as a state machine.                         *)
(*                                                                          *)
(* A Python string is a sequence of one-character strings; the element      *)
(* "SUP2" stands for the single character U+00B2 (SUPERSCRIPT TWO), for     *)
(* which str.isdigit() is True and int() raises ValueError.  A cell of a    *)
(* DataFrame is a record [t, s, n]: a string (t = "str", text s), a JSON    *)
(* integer (t = "num", value n) or a null (t = "nan": NaN / None).          *)
(* A DataFrame is [cols |-> sequence of column names, rows |-> sequence of  *)
(* functions from the column names to cells].                               *)
(***************************************************************************)
EXTENDS Integers, Sequences, FiniteSets, TLC

VARIABLES
    pc,              \* position in clean_and_process_dataframe
    df,              \* the working DataFrame (argument df, rebound by each stage)
    postcode_df,     \* the reference table (argument postcode_df)
    combined_df,     \* result of pd.merge and what follows it
    origin,          \* for each row of combined_df, the index of the df row it was joined from
    geocode_results, \* what geocode_address returned, one entry per row looked up so far
    lookups,         \* the addresses handed to gmaps.geocode, in call order
    ran,             \* the pipeline stages executed so far, in order
    err,             \* the exception that ended the run, or NoError
    session_df,      \* st.session_state.df
    excel,           \* the table written to the Excel stream
    summary,         \* geocoding_summary, the value_counts of geocode_status
    error_addresses, \* the rows displayed as geocoding errors
    input_df         \* the DataFrame the run was called with (never assigned again)

vars == <<pc, df, postcode_df, combined_df, origin, geocode_results, lookups, ran,
          err, session_df, excel, summary, error_addresses, input_df>>

------------------------------------------------------------------------------
(* Bounds of the model *)

MaxRows == 2
MaxAbsent == 1
MaxRefRows == 2
MaxAddrLen == 5

------------------------------------------------------------------------------
(* Cells *)

Str(s) == [t |-> "str", s |-> s, n |-> 0]
Num(n) == [t |-> "num", s |-> <<>>, n |-> n]
NaN == [t |-> "nan", s |-> <<>>, n |-> 0]

IsNull(v) == v.t = "nan"

Range(s) == {s[i] : i \in 1..Len(s)}

------------------------------------------------------------------------------
(* Python str methods *)

AsciiDigits == <<"0", "1", "2", "3", "4", "5", "6", "7", "8", "9">>
LowerLetters == <<"a", "b", "c", "d", "e", "f", "g", "h", "i", "j", "k", "l", "m",
                  "n", "o", "p", "q", "r", "s", "t", "u", "v", "w", "x", "y", "z">>
UpperLetters == <<"A", "B", "C", "D", "E", "F", "G", "H", "I", "J", "K", "L", "M",
                  "N", "O", "P", "Q", "R", "S", "T", "U", "V", "W", "X", "Y", "Z">>
Whitespace == {" ", "\t", "\n", "\r"}

\* characters c with c.isdigit(): the decimal digits and the superscript digits
IsDigitChar(c) == c \in Range(AsciiDigits) \/ c = "SUP2"
\* characters int() and float() accept as a digit
IsDecimalChar(c) == c \in Range(AsciiDigits)

\* str.isdigit(): every character is a digit and there is at least one
isdigit(s) == Len(s) > 0 /\ \A i \in 1..Len(s) : IsDigitChar(s[i])

DigitVal(c) == (CHOOSE i \in 1..10 : AsciiDigits[i] = c) - 1

RECURSIVE IntOf(_)
IntOf(s) == IF s = <<>> THEN 0 ELSE 10 * IntOf(SubSeq(s, 1, Len(s) - 1)) + DigitVal(s[Len(s)])

\* int(s) / float(s) on an isdigit() string raise ValueError on a non-decimal digit
ValueErrorOf(s) == \E i \in 1..Len(s) : ~IsDecimalChar(s[i])

RECURSIVE IntToStr(_)
IntToStr(n) == IF n < 10 THEN <<AsciiDigits[n + 1]>> ELSE IntToStr(n \div 10) \o <<AsciiDigits[(n % 10) + 1]>>

UpperChar(c) ==
    IF \E i \in 1..26 : LowerLetters[i] = c
    THEN UpperLetters[CHOOSE i \in 1..26 : LowerLetters[i] = c]
    ELSE c

upper(s) == [i \in 1..Len(s) |-> UpperChar(s[i])]

startswith(s, p) == Len(s) >= Len(p) /\ SubSeq(s, 1, Len(p)) = p
endswith(s, p) == Len(s) >= Len(p) /\ SubSeq(s, Len(s) - Len(p) + 1, Len(s)) = p

\* str.replace(old, new): every occurrence, left to right, not overlapping
RECURSIVE replace(_, _, _)
replace(s, old, new) ==
    IF Len(s) < Len(old) THEN s
    ELSE IF SubSeq(s, 1, Len(old)) = old
         THEN new \o replace(SubSeq(s, Len(old) + 1, Len(s)), old, new)
         ELSE <<s[1]>> \o replace(Tail(s), old, new)

\* str.replace(old, new, 1): the first occurrence only
RECURSIVE replace_first(_, _, _)
replace_first(s, old, new) ==
    IF Len(s) < Len(old) THEN s
    ELSE IF SubSeq(s, 1, Len(old)) = old
         THEN new \o SubSeq(s, Len(old) + 1, Len(s))
         ELSE <<s[1]>> \o replace_first(Tail(s), old, new)

RECURSIVE rstrip(_, _)
rstrip(s, chars) ==
    IF s # <<>> /\ s[Len(s)] \in chars THEN rstrip(SubSeq(s, 1, Len(s) - 1), chars) ELSE s

RECURSIVE lstrip(_, _)
lstrip(s, chars) == IF s # <<>> /\ s[1] \in chars THEN lstrip(Tail(s), chars) ELSE s

strip(s) == lstrip(rstrip(s, Whitespace), Whitespace)

\* str(x), Series.astype(str): a string is itself, NaN is "nan", an integer its decimal digits
PyStr(v) ==
    CASE v.t = "str" -> v.s
      [] v.t = "nan" -> <<"n", "a", "n">>
      [] v.t = "num" -> IntToStr(v.n)

------------------------------------------------------------------------------
(* DataFrames *)

HasCol(d, c) == c \in Range(d.cols)

NRows(d) == Len(d.rows)

IsEmptyFrame(d) == d.cols = <<>> \/ d.rows = <<>>

\* dataframe[c] = values, one value per row: an existing column is overwritten in
\* place, a new one is appended
AssignSeq(d, c, values) ==
    [cols |-> IF HasCol(d, c) THEN d.cols ELSE Append(d.cols, c),
     rows |-> [i \in 1..Len(d.rows) |->
                 [k \in Range(d.cols) \cup {c} |-> IF k = c THEN values[i] ELSE d.rows[i][k]]]]

\* dataframe[new_order]
Project(d, new_order) ==
    [cols |-> new_order,
     rows |-> [i \in 1..Len(d.rows) |-> [k \in Range(new_order) |-> d.rows[i][k]]]]

In(c, names) == c \in Range(names)
NotIn(c, names) == c \notin Range(names)

------------------------------------------------------------------------------
(* SchemaNormalizer *)

unwanted_columns == <<"form_id", "user_id", "proof_of_income", "proof_of_income_type",
                      "ic_image", "status", "is_b40", "race_other">>

drop_columns(dataframe, columns_to_drop) ==
    Project(dataframe, SelectSeq(dataframe.cols, LAMBDA c : NotIn(c, columns_to_drop)))

column_mapping(c) ==
    CASE c = "form_category" -> "program"
      [] c = "createdAt" -> "date"
      [] c = "ic_number" -> "ic"
      [] c = "race" -> "ethnicity"
      [] c = "gender" -> "sex"
      [] c = "mobile_number" -> "phone"
      [] c = "monthly_income" -> "salary_monthly"
      [] OTHER -> c

rename_columns(dataframe) ==
    LET new_cols == [i \in 1..Len(dataframe.cols) |-> column_mapping(dataframe.cols[i])]
        old(k) == dataframe.cols[CHOOSE i \in 1..Len(new_cols) : new_cols[i] = k]
    IN  [cols |-> new_cols,
         rows |-> [i \in 1..Len(dataframe.rows) |->
                     [k \in Range(new_cols) |-> dataframe.rows[i][old(k)]]]]

program_mapping ==
    (<<"f", "o", "o", "d">> :> <<"I", "N", "S", "A", "N">>)
    @@ (<<"a", "g", "r", "i", "c", "u", "l", "t", "u", "r", "e">> :> <<"I", "N", "T", "A", "N">>)
    @@ (<<"m", "a", "i", "n", "t", "e", "n", "a", "n", "c", "e">> :> <<"I", "K", "H", "S", "A", "N">>)

\* Series.map(value_mapping).fillna(original): a value that is no key keeps its original
rename_program_values(dataframe, value_mapping) ==
    IF HasCol(dataframe, "program")
    THEN AssignSeq(dataframe, "program",
            [i \in 1..NRows(dataframe) |->
                LET v == dataframe.rows[i]["program"]
                IN  IF v.t = "str" /\ v.s \in DOMAIN value_mapping
                    THEN Str(value_mapping[v.s])
                    ELSE v])
    ELSE dataframe

original_order == <<"program", "date", "ic", "name", "age", "ethnicity", "sex",
                    "state", "district", "postcode", "lat", "lon", "address", "phone",
                    "email", "salary_monthly", "miskin", "miskin_tegar", "str_mof",
                    "belum_disemak">>

reorder_columns(dataframe) ==
    LET existing_columns == SelectSeq(original_order, LAMBDA col : In(col, dataframe.cols))
        additional_columns == SelectSeq(dataframe.cols, LAMBDA col : NotIn(col, original_order))
        new_order == existing_columns \o additional_columns
    IN  Project(dataframe, new_order)

------------------------------------------------------------------------------
(* FieldFormatter *)

Min(a, b) == IF a <= b THEN a ELSE b

\* astype(str).str[:10]
reformat_dates(dataframe) ==
    IF HasCol(dataframe, "date")
    THEN AssignSeq(dataframe, "date",
            [i \in 1..NRows(dataframe) |->
                LET s == PyStr(dataframe.rows[i]["date"])
                IN  Str(SubSeq(s, 1, Min(10, Len(s))))])
    ELSE dataframe

\* Series.str.upper(): a cell that is no string becomes NaN
str_upper(v) == IF v.t = "str" THEN Str(upper(v.s)) ELSE NaN

\* the .str accessor raises AttributeError on a column of numbers only
StrAccessorRaises(dataframe, c) ==
    HasCol(dataframe, c) /\ \A i \in 1..Len(dataframe.rows) : dataframe.rows[i][c].t = "num"

format_uppercase(dataframe) ==
    LET d1 == IF HasCol(dataframe, "name")
              THEN AssignSeq(dataframe, "name", [i \in 1..NRows(dataframe) |-> str_upper(dataframe.rows[i]["name"])])
              ELSE dataframe
    IN  IF HasCol(d1, "address")
        THEN AssignSeq(d1, "address", [i \in 1..NRows(d1) |-> str_upper(d1.rows[i]["address"])])
        ELSE d1

format_number(number) ==
    LET stripped == strip(PyStr(number))
    IN  IF startswith(stripped, <<"1">>)
        THEN Str(<<"+", "6", "0">> \o stripped)
        ELSE Str(<<"+", "6", "0", "1">> \o stripped)

format_phone_numbers(dataframe) ==
    IF HasCol(dataframe, "phone")
    THEN AssignSeq(dataframe, "phone", [i \in 1..NRows(dataframe) |-> format_number(dataframe.rows[i]["phone"])])
    ELSE dataframe

\* str(x).replace('.', '', 1).isdigit()
IsNumericShaped(x) == ~IsNull(x) /\ isdigit(replace_first(PyStr(x), <<".">>, <<>>))

Pow10(k) == IF k = 0 THEN 1 ELSE IF k = 1 THEN 10 ELSE IF k = 2 THEN 100 ELSE 1000

\* f"{float(x):.2f}" of digits with at most one point and at most three fraction
\* digits: the value in hundredths, rounded to nearest (a tie to even), then printed
Fixed2(s) ==
    LET dot == IF \E i \in 1..Len(s) : s[i] = "." THEN CHOOSE i \in 1..Len(s) : s[i] = "." ELSE Len(s) + 1
        ip == SubSeq(s, 1, dot - 1)
        fp == SubSeq(s, dot + 1, Len(s))
        k == Len(fp)
        n == IntOf(ip \o fp)
        q == IF k <= 2 THEN n * Pow10(2 - k) ELSE n \div Pow10(k - 2)
        r == IF k <= 2 THEN 0 ELSE n % Pow10(k - 2)
        h == IF 2 * r > Pow10(k - 2) \/ (2 * r = Pow10(k - 2) /\ q % 2 = 1) THEN q + 1 ELSE q
    IN  IntToStr(h \div 100) \o <<".">> \o <<AsciiDigits[((h \div 10) % 10) + 1]>> \o <<AsciiDigits[(h % 10) + 1]>>

salary_lambda(x) == IF IsNumericShaped(x) THEN Str(Fixed2(PyStr(x))) ELSE x

\* float(x) raises ValueError on a digit that is no decimal digit
SalaryRaises(dataframe) ==
    /\ HasCol(dataframe, "salary_monthly")
    /\ \E i \in 1..Len(dataframe.rows) :
          LET x == dataframe.rows[i]["salary_monthly"]
          IN  IsNumericShaped(x) /\ ValueErrorOf(replace_first(PyStr(x), <<".">>, <<>>))

format_salary(dataframe) ==
    IF HasCol(dataframe, "salary_monthly")
    THEN AssignSeq(dataframe, "salary_monthly",
                   [i \in 1..NRows(dataframe) |-> salary_lambda(dataframe.rows[i]["salary_monthly"])])
    ELSE dataframe

current_year == 2024

IC_ERROR == Str(<<"I", "C", " ", "E", "R", "R", "O", "R">>)

\* what calculate_age_from_ic raises on ic_number, "none" when it returns:
\* len() of a float or an int is a TypeError, int() of a superscript digit a ValueError
calculate_age_raises(ic_number) ==
    IF ic_number.t # "str" THEN "TypeError"
    ELSE IF Len(ic_number.s) # 12 \/ ~isdigit(ic_number.s) THEN "none"
    ELSE IF ValueErrorOf(SubSeq(ic_number.s, 1, 2)) THEN "ValueError"
    ELSE "none"

calculate_age_from_ic(ic_number) ==
    IF Len(ic_number.s) # 12 \/ ~isdigit(ic_number.s)
    THEN IC_ERROR
    ELSE LET year_str == SubSeq(ic_number.s, 1, 2)
             year_int == IntOf(year_str)
             birth_year == IF year_int <= 20 THEN 2000 + year_int ELSE 1900 + year_int
         IN  Num(current_year - birth_year)

\* the exception age_format raises on the frame, "none" when it returns
age_format_raises(dataframe) ==
    IF ~HasCol(dataframe, "ic") THEN "KeyError"
    ELSE IF \E i \in 1..Len(dataframe.rows) : calculate_age_raises(dataframe.rows[i]["ic"]) # "none"
         THEN calculate_age_raises(
                 dataframe.rows[CHOOSE i \in 1..Len(dataframe.rows) :
                                   /\ calculate_age_raises(dataframe.rows[i]["ic"]) # "none"
                                   /\ \A j \in 1..(i - 1) :
                                         calculate_age_raises(dataframe.rows[j]["ic"]) = "none"]["ic"])
         ELSE "none"

age_format(dataframe) ==
    AssignSeq(dataframe, "age", [i \in 1..NRows(dataframe) |-> calculate_age_from_ic(dataframe.rows[i]["ic"])])

------------------------------------------------------------------------------
(* AddressEnricher and GeocodeClient *)

MALAYSIA == <<",", " ", "M", "A", "L", "A", "Y", "S", "I", "A">>

\* the suffix appended without the endswith test
process_address_always_appends(address) ==
    strip(rstrip(replace(replace(address, <<"\n">>, <<" ">>), <<",", " ", ",">>, <<",">>), {","})) \o MALAYSIA

process_address(address) ==
    LET a == strip(rstrip(replace(replace(address, <<"\n">>, <<" ">>), <<",", " ", ",">>, <<",">>), {","}))
    IN  IF ~endswith(a, MALAYSIA) THEN a \o MALAYSIA ELSE a

\* address.replace on a cell that is no string raises AttributeError
clean_address_raises(address_list) == \E i \in 1..Len(address_list) : address_list[i].t # "str"

clean_address(address_list) == [i \in 1..Len(address_list) |-> Str(process_address(address_list[i].s))]

Column(d, c) == [i \in 1..Len(d.rows) |-> d.rows[i][c]]

\* what gmaps.geocode(address) does: a list with candidates, an empty list,
\* googlemaps.exceptions.ApiError, or any other exception (no client, transport,
\* a candidate without geometry)
Outcomes == {"candidates", "empty", "ApiError", "Exception"}

\* the coordinates of the first candidate
GeoLat == 3
GeoLng == 101

\* the error branches returning 0.0 for the coordinates instead of None
geocode_address_zero_coordinates(outcome) ==
    CASE outcome = "candidates" -> <<Str(<<"s", "u", "c", "c", "e", "s", "s">>), Num(GeoLat), Num(GeoLng)>>
      [] outcome = "empty" -> <<Str(<<"n", "o", "_", "r", "e", "s", "u", "l", "t">>), NaN, NaN>>
      [] outcome = "ApiError" -> <<Str(<<"a", "p", "i", "_", "e", "r", "r", "o", "r">>), Num(0), Num(0)>>
      [] outcome = "Exception" -> <<Str(<<"e", "r", "r", "o", "r">>), Num(0), Num(0)>>

geocode_address(outcome) ==
    CASE outcome = "candidates" -> <<Str(<<"s", "u", "c", "c", "e", "s", "s">>), Num(GeoLat), Num(GeoLng)>>
      [] outcome = "empty" -> <<Str(<<"n", "o", "_", "r", "e", "s", "u", "l", "t">>), NaN, NaN>>
      [] outcome = "ApiError" -> <<Str(<<"a", "p", "i", "_", "e", "r", "r", "o", "r">>), NaN, NaN>>
      [] outcome = "Exception" -> <<Str(<<"e", "r", "r", "o", "r">>), NaN, NaN>>

------------------------------------------------------------------------------
(* ReferenceJoiner *)

\* Series.astype(str).str.strip()
normalize_postcode(d) ==
    AssignSeq(d, "postcode", [i \in 1..NRows(d) |-> Str(strip(PyStr(d.rows[i]["postcode"])))])

suffix_x(c) == IF c = "state" THEN "state_x" ELSE IF c = "city" THEN "city_x" ELSE c
suffix_y(c) == IF c = "state" THEN "state_y" ELSE IF c = "city" THEN "city_y" ELSE c

\* the rows of right whose key equals that of left row i, in the order of right
MatchesOf(left, right, on, i) ==
    SelectSeq([j \in 1..Len(right.rows) |-> j],
              LAMBDA j : right.rows[j][on] = left.rows[i][on])

\* the (left row, right row) pairs of a left join, in the order of left;
\* right row 0 stands for no match
RECURSIVE JoinPairs(_, _, _, _)
JoinPairs(left, right, on, i) ==
    IF i > Len(left.rows) THEN <<>>
    ELSE LET m == MatchesOf(left, right, on, i)
         IN  (IF m = <<>> THEN <<(<<i, 0>>)>> ELSE [k \in 1..Len(m) |-> <<i, m[k]>>])
             \o JoinPairs(left, right, on, i + 1)

\* pd.merge(left, right, on=on, how='left'): a column of both sides other than the
\* key gets the suffixes _x and _y
merge(left, right, on) ==
    LET overlap(c) == c # on /\ In(c, left.cols) /\ In(c, right.cols)
        lcols == [i \in 1..Len(left.cols) |->
                    IF overlap(left.cols[i]) THEN suffix_x(left.cols[i]) ELSE left.cols[i]]
        rkeep == SelectSeq(right.cols, LAMBDA c : c # on)
        rcols == [i \in 1..Len(rkeep) |-> IF overlap(rkeep[i]) THEN suffix_y(rkeep[i]) ELSE rkeep[i]]
        pairs == JoinPairs(left, right, on, 1)
        cell(p, k) ==
            IF \E i \in 1..Len(lcols) : lcols[i] = k
            THEN left.rows[p[1]][left.cols[CHOOSE i \in 1..Len(lcols) : lcols[i] = k]]
            ELSE IF p[2] = 0 THEN NaN
                 ELSE right.rows[p[2]][rkeep[CHOOSE i \in 1..Len(rcols) : rcols[i] = k]]
    IN  [cols |-> lcols \o rcols,
         rows |-> [n \in 1..Len(pairs) |-> [k \in Range(lcols \o rcols) |-> cell(pairs[n], k)]]]

merge_origin(left, right, on) ==
    LET pairs == JoinPairs(left, right, on, 1) IN [n \in 1..Len(pairs) |-> pairs[n][1]]

\* DataFrame.rename(columns={old: new})
RenameCol(d, old, new) ==
    LET new_cols == [i \in 1..Len(d.cols) |-> IF d.cols[i] = old THEN new ELSE d.cols[i]]
    IN  [cols |-> new_cols,
         rows |-> [i \in 1..Len(d.rows) |->
                     [k \in Range(new_cols) |-> IF k = new THEN d.rows[i][old] ELSE d.rows[i][k]]]]

\* lines 222-227: city becomes district, state_x becomes state, state_y is dropped
rename_merged(combined) ==
    LET c1 == IF HasCol(combined, "city") THEN RenameCol(combined, "city", "district") ELSE combined
        c2 == IF HasCol(c1, "state_x") THEN RenameCol(c1, "state_x", "state") ELSE c1
    IN  IF HasCol(c2, "state_y") THEN drop_columns(c2, <<"state_y">>) ELSE c2

new_columns == <<"miskin", "miskin_tegar", "str_mof", "belum_disemak">>

\* for col, value in new_columns.items(): combined_df[col] = value
RECURSIVE add_new_columns(_, _)
add_new_columns(combined, names) ==
    IF names = <<>> THEN combined
    ELSE add_new_columns(AssignSeq(combined, Head(names), [i \in 1..NRows(combined) |-> Str(<<>>)]),
                         Tail(names))

------------------------------------------------------------------------------
(* PipelineOrchestrator: the summary *)

SUCCESS == Str(<<"s", "u", "c", "c", "e", "s", "s">>)

\* Series.value_counts(): the count of each value that occurs, nulls left out
value_counts(values) ==
    LET present == {values[i] : i \in {j \in 1..Len(values) : ~IsNull(values[j])}}
    IN  [v \in present |-> Cardinality({i \in 1..Len(values) : values[i] = v})]

\* combined_df[combined_df['geocode_status'] != 'success'][['address', 'geocode_status']]
errors_of(combined) ==
    LET bad == SelectSeq(combined.rows, LAMBDA r : r["geocode_status"] # SUCCESS)
    IN  [i \in 1..Len(bad) |-> [k \in {"address", "geocode_status"} |-> bad[i][k]]]

------------------------------------------------------------------------------
(* The inputs of a run *)

\* the raw field names of an exported record, in the order of the JSON object
RawFields == <<"form_id", "form_category", "createdAt", "ic_number", "name", "state",
               "postcode", "address", "mobile_number", "monthly_income", "remarks", "miskin">>

\* the fields a batch may lack
Optional == {"form_category", "createdAt", "ic_number", "name", "state", "postcode",
             "address", "mobile_number", "monthly_income", "remarks", "miskin"}

\* raw records: RecordA is complete, RecordB lacks the address and the flag that
\* RecordA has (a null cell) and carries a malformed ic and a numeric postcode
RecordA ==
    [form_id |-> Num(1),
     form_category |-> Str(<<"f", "o", "o", "d">>),
     createdAt |-> Str(<<"2", "0", "2", "4", "-", "0", "5", "-", "0", "1", "T", "1", "0">>),
     ic_number |-> Str(<<"9", "0", "0", "1", "0", "1", "0", "1", "1", "2", "3", "4">>),
     name |-> Str(<<"A", "l", "i">>),
     state |-> Str(<<"J", "o", "h", "o", "r">>),
     postcode |-> Str(<<" ", "4", "3", "0", "0", "0", " ">>),
     address |-> Str(<<"J", "a", "l", "a", "n", " ", "X", ",", ",", " ", "\n", "T", "a", "m", "a", "n", " ", "Y", ",">>),
     mobile_number |-> Str(<<"1", "1", "2", "3", "4", "5">>),
     monthly_income |-> Str(<<"1", "5", "0", "0">>),
     remarks |-> Str(<<"r">>),
     miskin |-> Str(<<"Y">>)]

RecordB ==
    [form_id |-> Num(2),
     form_category |-> Str(<<"o", "t", "h", "e", "r">>),
     createdAt |-> Str(<<"2", "0", "2", "4", "-", "0", "5", "-", "0", "1", "T", "1", "0">>),
     ic_number |-> Str(<<"1", "2", "3", "4", "5">>),
     name |-> Str(<<"S", "i", "t", "i">>),
     state |-> Str(<<"P", "e", "r", "a", "k">>),
     postcode |-> Num(50000),
     address |-> NaN,
     mobile_number |-> Str(<<" ", "8", "1", "2", "3", "4", "5">>),
     monthly_income |-> Str(<<"a", "b", "c">>),
     remarks |-> Str(<<"r">>),
     miskin |-> NaN]

RawRecords == {RecordA, RecordB}

SeqsUpTo(S, n) == UNION {[1..k -> S] : k \in 0..n}

\* pd.json_normalize(records): no record, no column
json_normalize(records, absent) ==
    IF records = <<>> THEN [cols |-> <<>>, rows |-> <<>>]
    ELSE Project([cols |-> RawFields, rows |-> records],
                 SelectSeq(RawFields, LAMBDA c : c \notin absent))

InputFrames ==
    {json_normalize(records, absent) :
        records \in SeqsUpTo(RawRecords, MaxRows),
        absent \in {a \in SUBSET Optional : Cardinality(a) <= MaxAbsent}}

\* rows of the postcode workbook: an Excel number or text cell as postcode
RefRow1 == [postcode |-> Num(43000), city |-> Str(<<"K", "a", "j", "a", "n", "g">>), state |-> Str(<<"S", "e", "l", "a", "n", "g", "o", "r">>)]
RefRow2 == [postcode |-> Str(<<"5", "0", "0", "0", "0", " ">>), city |-> Str(<<"K", "L">>), state |-> Str(<<"W", "P">>)]
RefRows == {RefRow1, RefRow2}

\* load_postcode_data(): the workbook, or pd.DataFrame() when it cannot be read
ReferenceFrames ==
    {IF rows = <<>> THEN [cols |-> <<>>, rows |-> <<>>]
     ELSE [cols |-> <<"postcode", "city", "state">>, rows |-> rows] :
        rows \in SeqsUpTo(RefRows, MaxRefRows)}

NoError == [type |-> "none", at |-> "none"]
EmptyFrame == [cols |-> <<>>, rows |-> <<>>]

\* an absent value (Python None) is the empty sequence, a present one a sequence of one
None == <<>>
Some(x) == <<x>>

Idle ==
    /\ combined_df = EmptyFrame
    /\ origin = <<>>
    /\ geocode_results = <<>>
    /\ lookups = <<>>
    /\ ran = <<>>
    /\ err = NoError
    /\ session_df = None
    /\ excel = None
    /\ summary = None
    /\ error_addresses = None

\* json_to_dataframe returned None (the upload failed to parse) or a frame
Init ==
    /\ pc = "start"
    /\ input_df \in {None} \cup {Some(d) : d \in InputFrames}
    /\ df = IF input_df = None THEN EmptyFrame ELSE input_df[1]
    /\ postcode_df \in ReferenceFrames
    /\ Idle

------------------------------------------------------------------------------
(* clean_and_process_dataframe, one action per statement group *)

\* a stage that rebinds df and goes on
Step(stage, next, new_df) ==
    /\ pc' = next
    /\ df' = new_df
    /\ ran' = Append(ran, stage)
    /\ UNCHANGED <<postcode_df, combined_df, origin, geocode_results, lookups, err,
                   session_df, excel, summary, error_addresses, input_df>>

\* a stage that raises: the exception leaves clean_and_process_dataframe
Raise(stage, type) ==
    /\ pc' = "raised"
    /\ err' = [type |-> type, at |-> stage]
    /\ ran' = Append(ran, stage)
    /\ UNCHANGED <<df, postcode_df, combined_df, origin, geocode_results, lookups,
                   session_df, excel, summary, error_addresses, input_df>>

\* st.error(...) and return
Abort(why) ==
    /\ pc' = "aborted"
    /\ err' = [type |-> "st.error", at |-> why]
    /\ UNCHANGED <<df, postcode_df, combined_df, origin, geocode_results, lookups, ran,
                   session_df, excel, summary, error_addresses, input_df>>

\* lines 176-178
CheckInput ==
    /\ pc = "start"
    /\ IF input_df = None \/ IsEmptyFrame(df)
       THEN Abort("input")
       ELSE /\ pc' = "drop_columns"
            /\ UNCHANGED <<df, postcode_df, combined_df, origin, geocode_results, lookups,
                           ran, err, session_df, excel, summary, error_addresses, input_df>>

\* lines 181-185
DropColumns ==
    /\ pc = "drop_columns"
    /\ Step("drop_columns", "rename_columns", drop_columns(df, unwanted_columns))

\* line 188
RenameColumns ==
    /\ pc = "rename_columns"
    /\ Step("rename_columns", "rename_program_values", rename_columns(df))

\* lines 189-194
RenameProgramValues ==
    /\ pc = "rename_program_values"
    /\ Step("rename_program_values", "reformat_dates", rename_program_values(df, program_mapping))

\* line 195
ReformatDates ==
    /\ pc = "reformat_dates"
    /\ Step("reformat_dates", "format_uppercase", reformat_dates(df))

\* line 196
FormatUppercase ==
    /\ pc = "format_uppercase"
    /\ IF StrAccessorRaises(df, "name") \/ StrAccessorRaises(df, "address")
       THEN Raise("format_uppercase", "AttributeError")
       ELSE Step("format_uppercase", "format_phone_numbers", format_uppercase(df))

\* line 197
FormatPhoneNumbers ==
    /\ pc = "format_phone_numbers"
    /\ Step("format_phone_numbers", "format_salary", format_phone_numbers(df))

\* line 198
FormatSalary ==
    /\ pc = "format_salary"
    /\ IF SalaryRaises(df)
       THEN Raise("format_salary", "ValueError")
       ELSE Step("format_salary", "age_format", format_salary(df))

\* line 199
AgeFormat ==
    /\ pc = "age_format"
    /\ IF age_format_raises(df) # "none"
       THEN Raise("age_format", age_format_raises(df))
       ELSE Step("age_format", "clean_address", age_format(df))

\* lines 201-202; without an address column lines 202-207 are skipped
CleanAddress ==
    /\ pc = "clean_address"
    /\ IF ~HasCol(df, "address")
       THEN /\ pc' = "reorder_columns"
            /\ UNCHANGED <<df, postcode_df, combined_df, origin, geocode_results, lookups,
                           ran, err, session_df, excel, summary, error_addresses, input_df>>
       ELSE IF clean_address_raises(Column(df, "address"))
            THEN Raise("clean_address", "AttributeError")
            ELSE Step("clean_address", "geocode",
                      AssignSeq(df, "address", clean_address(Column(df, "address"))))

\* line 206, one row of the apply: geocode_address(addr) with what the service does
GeocodeLookup ==
    /\ pc = "geocode"
    /\ Len(geocode_results) < NRows(df)
    /\ \E outcome \in Outcomes :
          geocode_results' = Append(geocode_results, geocode_address(outcome))
    /\ lookups' = Append(lookups, df.rows[Len(geocode_results) + 1]["address"].s)
    /\ UNCHANGED <<pc, df, postcode_df, combined_df, origin, ran, err, session_df, excel,
                   summary, error_addresses, input_df>>

\* line 207: df[['geocode_status', 'lat', 'lon']] = geocode_results
assign_geocode(dataframe, results) ==
    AssignSeq(AssignSeq(AssignSeq(dataframe,
        "geocode_status", [i \in 1..Len(results) |-> results[i][1]]),
        "lat", [i \in 1..Len(results) |-> results[i][2]]),
        "lon", [i \in 1..Len(results) |-> results[i][3]])

GeocodeAssign ==
    /\ pc = "geocode"
    /\ Len(geocode_results) = NRows(df)
    /\ Step("geocode", "reorder_columns", assign_geocode(df, geocode_results))

\* line 210
ReorderColumns ==
    /\ pc = "reorder_columns"
    /\ Step("reorder_columns", "check_postcode", reorder_columns(df))

\* the check written as "postcode_df is None": load_postcode_data never returns None
reference_unavailable_is_none(reference) == FALSE

\* postcode_df.empty
reference_unavailable(reference) == IsEmptyFrame(reference)

\* lines 213-215
CheckPostcode ==
    /\ pc = "check_postcode"
    /\ IF reference_unavailable(postcode_df)
       THEN Abort("reference")
       ELSE /\ pc' = "merge"
            /\ UNCHANGED <<df, postcode_df, combined_df, origin, geocode_results, lookups,
                           ran, err, session_df, excel, summary, error_addresses, input_df>>

\* lines 217-227
Merge ==
    /\ pc = "merge"
    /\ IF ~HasCol(df, "postcode")
       THEN Raise("merge", "KeyError")
       ELSE LET left == normalize_postcode(df)
                right == normalize_postcode(postcode_df)
            IN  /\ df' = left
                /\ postcode_df' = right
                /\ combined_df' = rename_merged(merge(left, right, "postcode"))
                /\ origin' = merge_origin(left, right, "postcode")
                /\ pc' = "add_new_columns"
                /\ ran' = Append(ran, "merge")
                /\ UNCHANGED <<geocode_results, lookups, err, session_df, excel, summary,
                               error_addresses, input_df>>

\* lines 229-237
AddNewColumns ==
    /\ pc = "add_new_columns"
    /\ combined_df' = add_new_columns(combined_df, new_columns)
    /\ pc' = "save"
    /\ ran' = Append(ran, "add_new_columns")
    /\ UNCHANGED <<df, postcode_df, origin, geocode_results, lookups, err, session_df,
                   excel, summary, error_addresses, input_df>>

\* lines 239-253: the Excel stream, st.session_state.df and the preview
Save ==
    /\ pc = "save"
    /\ excel' = Some(combined_df)
    /\ session_df' = Some(combined_df)
    /\ pc' = "summarize"
    /\ ran' = Append(ran, "save")
    /\ UNCHANGED <<df, postcode_df, combined_df, origin, geocode_results, lookups, err,
                   summary, error_addresses, input_df>>

\* lines 255-272: combined_df['geocode_status'] is a KeyError without that column
Summarize ==
    /\ pc = "summarize"
    /\ IF ~HasCol(combined_df, "geocode_status")
       THEN Raise("summarize", "KeyError")
       ELSE /\ summary' = Some(value_counts(Column(combined_df, "geocode_status")))
            /\ error_addresses' = Some(errors_of(combined_df))
            /\ pc' = "done"
            /\ ran' = Append(ran, "summarize")
            /\ UNCHANGED <<df, postcode_df, combined_df, origin, geocode_results, lookups,
                           err, session_df, excel, input_df>>

Next ==
    \/ CheckInput
    \/ DropColumns
    \/ RenameColumns
    \/ RenameProgramValues
    \/ ReformatDates
    \/ FormatUppercase
    \/ FormatPhoneNumbers
    \/ FormatSalary
    \/ AgeFormat
    \/ CleanAddress
    \/ GeocodeLookup
    \/ GeocodeAssign
    \/ ReorderColumns
    \/ CheckPostcode
    \/ Merge
    \/ AddNewColumns
    \/ Save
    \/ Summarize

Spec == Init /\ [][Next]_vars

------------------------------------------------------------------------------
(* age_format alone, over ic strings *)

\* the characters an ic is drawn from: the decimal digits, a letter, a superscript digit
IcAlphabet == Range(AsciiDigits) \cup {"A", "SUP2"}

\* what follows the two year characters: ten digits (length 12 in all), nine, eleven,
\* ten with a letter, ten with a superscript digit
IcTails == {<<"0", "1", "0", "1", "0", "1", "1", "2", "3", "4">>,
            <<"0", "1", "0", "1", "0", "1", "1", "2", "3">>,
            <<"0", "1", "0", "1", "0", "1", "1", "2", "3", "4", "5">>,
            <<"0", "1", "0", "1", "0", "1", "1", "2", "3", "A">>,
            <<"0", "1", "0", "1", "0", "1", "1", "2", "3", "SUP2">>}

IcStrings ==
    {<<>>} \cup {<<a>> : a \in IcAlphabet}
    \cup {<<a, b>> \o tail : a \in IcAlphabet, b \in IcAlphabet, tail \in IcTails}

InitAge ==
    /\ pc = "age_format"
    /\ \E ic \in IcStrings :
          df = [cols |-> <<"ic">>, rows |-> <<[k \in {"ic"} |-> Str(ic)]>>]
    /\ input_df = Some(df)
    /\ postcode_df = EmptyFrame
    /\ Idle

SpecAge == InitAge /\ [][AgeFormat]_vars

------------------------------------------------------------------------------
(* clean_address alone, over address strings *)

AddrAlphabet == {"a", ",", " ", "\n"}

AddrSuffixes == {<<>>, MALAYSIA, MALAYSIA \o <<",">>, <<",", " ", "M", "a", "l", "a", "y", "s", "i", "a">>}

ExampleAddress == <<"J", "a", "l", "a", "n", " ", "X", ",", ",", " ", "\n", "T", "a", "m", "a", "n", " ", "Y", ",">>

AddrStrings ==
    {ExampleAddress}
    \cup {head \o tail : head \in SeqsUpTo(AddrAlphabet, MaxAddrLen), tail \in AddrSuffixes}

InitAddr ==
    /\ pc = "clean_address"
    /\ \E a \in AddrStrings :
          df = [cols |-> <<"address">>, rows |-> <<[k \in {"address"} |-> Str(a)]>>]
    /\ input_df = Some(df)
    /\ postcode_df = EmptyFrame
    /\ Idle

SpecAddr == InitAddr /\ [][CleanAddress]_vars

------------------------------------------------------------------------------
(* Properties *)

InputUnavailable == input_df = None \/ IsEmptyFrame(input_df[1])
ReferenceUnavailable == IsEmptyFrame(postcode_df)
NoOutput == session_df = None /\ excel = None /\ summary = None /\ error_addresses = None
AfterJoin == pc \in {"add_new_columns", "save", "summarize", "done"}

HasMatch(i) == \E j \in 1..NRows(postcode_df) : postcode_df.rows[j]["postcode"] = df.rows[i]["postcode"]
CityOf(i) ==
    postcode_df.rows[CHOOSE j \in 1..NRows(postcode_df) :
                        postcode_df.rows[j]["postcode"] = df.rows[i]["postcode"]]["city"]

\* C2: the join neither drops nor reorders records: right after it the output rows
\* are the input records one to one and in order, a matched record has the
\* reference city as district, an unmatched one a null district, and every field
\* of the record, its state included, is unchanged.
C2_LeftJoinOneToOne ==
    pc = "add_new_columns" =>
        /\ NRows(combined_df) = NRows(df)
        /\ origin = [i \in 1..NRows(df) |-> i]
        /\ HasCol(combined_df, "district")
        /\ \A i \in 1..NRows(combined_df) :
              /\ combined_df.rows[i]["district"] = (IF HasMatch(i) THEN CityOf(i) ELSE NaN)
              /\ \A k \in Range(df.cols) : combined_df.rows[i][k] = df.rows[i][k]

StatusNames == {<<"s", "u", "c", "c", "e", "s", "s">>, <<"n", "o", "_", "r", "e", "s", "u", "l", "t">>,
                <<"a", "p", "i", "_", "e", "r", "r", "o", "r">>, <<"e", "r", "r", "o", "r">>}

HasCoordinates(r) == ~IsNull(r["lat"]) /\ ~IsNull(r["lon"])

\* C3: in the table of a completed run every record's geocode_status is one of
\* success, no_result, api_error, error, and its lat and lon are both present
\* exactly when the status is success.
C3_StatusAndCoordinates ==
    pc = "done" =>
        /\ session_df # None
        /\ \A c \in {"geocode_status", "lat", "lon"} : HasCol(session_df[1], c)
        /\ \A i \in 1..NRows(session_df[1]) :
              LET r == session_df[1].rows[i]
              IN  /\ r["geocode_status"].t = "str"
                  /\ r["geocode_status"].s \in StatusNames
                  /\ HasCoordinates(r) <=> r["geocode_status"] = SUCCESS
                  /\ IsNull(r["lat"]) <=> IsNull(r["lon"])

\* C3 witness: a completed run whose table holds a success and a failed lookup
C3_Witness ==
    /\ pc = "done"
    /\ \E i, j \in 1..NRows(session_df[1]) :
          /\ session_df[1].rows[i]["geocode_status"] = SUCCESS
          /\ session_df[1].rows[j]["geocode_status"] = Str(<<"a", "p", "i", "_", "e", "r", "r", "o", "r">>)

\* C4: enrichment is per record: a record whose address cannot be cleaned or
\* geocoded never ends the run, and once the enrichment stage is over every record
\* carries the status and coordinates of its own lookup.
C4_EnrichmentIndependent ==
    /\ ~(pc = "raised" /\ err.at \in {"clean_address", "geocode"})
    /\ (pc = "reorder_columns" /\ HasCol(df, "geocode_status")) =>
          \A i \in 1..NRows(df) :
              <<df.rows[i]["geocode_status"], df.rows[i]["lat"], df.rows[i]["lon"]>> = geocode_results[i]

RECURSIVE SumOver(_, _)
SumOver(f, S) ==
    IF S = {} THEN 0
    ELSE LET x == CHOOSE y \in S : TRUE IN f[x] + SumOver(f, S \ {x})

CountOf(f, v) == IF v \in DOMAIN f THEN f[v] ELSE 0

\* C5: for a completed run the per-status counts of the summary add up to the
\* number of input records, and the success count is the number of records with
\* lat and lon both present.
C5_SummaryCounts ==
    pc = "done" =>
        /\ SumOver(summary[1], DOMAIN summary[1]) = NRows(input_df[1])
        /\ CountOf(summary[1], SUCCESS)
             = Cardinality({i \in 1..NRows(session_df[1]) : HasCoordinates(session_df[1].rows[i])})

CanonicalOrder == <<"program", "date", "ic", "name", "age", "ethnicity", "sex", "state",
                    "district", "postcode", "lat", "lon", "address", "phone", "email",
                    "salary_monthly", "geocode_status", "miskin", "miskin_tegar", "str_mof",
                    "belum_disemak">>

PlaceIn(order, c) == CHOOSE i \in 1..Len(order) : order[i] = c

\* C6: the table of a completed run lists the canonical fields in the canonical
\* order, and every other field after all of them.
C6_CanonicalOrder ==
    pc = "done" =>
        LET cols == session_df[1].cols
        IN  \A i, j \in 1..Len(cols) :
                i < j =>
                    /\ (In(cols[i], CanonicalOrder) /\ In(cols[j], CanonicalOrder))
                          => PlaceIn(CanonicalOrder, cols[i]) < PlaceIn(CanonicalOrder, cols[j])
                    /\ NotIn(cols[i], CanonicalOrder) => NotIn(cols[j], CanonicalOrder)

\* C7: the four flag fields are in every record of the final table, empty when the
\* input did not supply the field and with the supplied value when it did.
C7_FlagsDefaulted ==
    pc = "done" =>
        \A f \in Range(new_columns) :
            /\ HasCol(session_df[1], f)
            /\ \A n \in 1..NRows(session_df[1]) :
                  session_df[1].rows[n][f]
                    = (IF HasCol(input_df[1], f) THEN input_df[1].rows[origin[n]][f] ELSE Str(<<>>))

\* C8: no stage raises because an optional field is absent from the batch: a run
\* on a non-empty input with a reference table never ends in the KeyError of a
\* missing column.
C8_TotalOverAbsentFields ==
    (~InputUnavailable /\ ~ReferenceUnavailable) => ~(pc = "raised" /\ err.type = "KeyError")

IsDecimalString(s) == \A i \in 1..Len(s) : s[i] \in Range(AsciiDigits)

\* C9: for every ic string age_format raises nothing, derives "IC ERROR" when the
\* length is not 12 or a character is no digit, derives the reference year less
\* the birth year (2000+Y for Y <= 20, 1900+Y for Y >= 21) when ic is twelve decimal
\* digits, and leaves ic as it was.
C9_DeriveAge ==
    /\ pc # "raised"
    /\ pc = "clean_address" =>
          LET ic == input_df[1].rows[1]["ic"].s
              Y == 10 * DigitVal(ic[1]) + DigitVal(ic[2])
          IN  /\ (Len(ic) # 12 \/ \E i \in 1..Len(ic) : ~IsDigitChar(ic[i]))
                    => df.rows[1]["age"] = IC_ERROR
              /\ (Len(ic) = 12 /\ IsDecimalString(ic))
                    => df.rows[1]["age"] = Num(2024 - (IF Y <= 20 THEN 2000 + Y ELSE 1900 + Y))
              /\ df.rows[1]["ic"] = input_df[1].rows[1]["ic"]

\* the address description, written as scans over the positions of the string
NewlinesToSpaces(s) == [i \in 1..Len(s) |-> IF s[i] = "\n" THEN " " ELSE s[i]]

RECURSIVE CollapseDoubleCommas(_, _)
CollapseDoubleCommas(s, i) ==
    IF i > Len(s) THEN <<>>
    ELSE IF i + 1 <= Len(s) /\ s[i] = "," /\ s[i + 1] = ","
         THEN <<",">> \o CollapseDoubleCommas(s, i + 2)
         ELSE <<s[i]>> \o CollapseDoubleCommas(s, i + 1)

RECURSIVE CollapseCommaSpaceComma(_, _)
CollapseCommaSpaceComma(s, i) ==
    IF i > Len(s) THEN <<>>
    ELSE IF i + 2 <= Len(s) /\ s[i] = "," /\ s[i + 1] = " " /\ s[i + 2] = ","
         THEN <<",">> \o CollapseCommaSpaceComma(s, i + 3)
         ELSE <<s[i]>> \o CollapseCommaSpaceComma(s, i + 1)

WithoutTrailingCommas(s) ==
    SubSeq(s, 1, CHOOSE k \in 0..Len(s) :
                    /\ \A j \in (k + 1)..Len(s) : s[j] = ","
                    /\ k > 0 => s[k] # ",")

Trimmed(s) ==
    IF \A i \in 1..Len(s) : s[i] \in Whitespace THEN <<>>
    ELSE SubSeq(s, CHOOSE a \in 1..Len(s) : s[a] \notin Whitespace /\ \A j \in 1..(a - 1) : s[j] \in Whitespace,
                   CHOOSE b \in 1..Len(s) : s[b] \notin Whitespace /\ \A j \in (b + 1)..Len(s) : s[j] \in Whitespace)

WithSuffix(s) == IF endswith(s, MALAYSIA) THEN s ELSE s \o MALAYSIA

ClaimedAddress(s) == WithSuffix(Trimmed(WithoutTrailingCommas(CollapseDoubleCommas(NewlinesToSpaces(s), 1))))
AmendedAddress(s) == WithSuffix(Trimmed(WithoutTrailingCommas(CollapseCommaSpaceComma(NewlinesToSpaces(s), 1))))

AddressIn == input_df[1].rows[1]["address"].s
AddressOut == df.rows[1]["address"].s

\* C10 as stated: clean_address raises on no string and returns the input with each
\* newline a space, each comma directly followed by a comma collapsed to one,
\* trailing commas and surrounding whitespace stripped and ", MALAYSIA" appended
\* unless already there; "Jalan X,, <newline>Taman Y," becomes
\* "Jalan X, Taman Y, MALAYSIA" and "" becomes ", MALAYSIA".
C10_CleanAddressAsStated ==
    /\ pc # "raised"
    /\ pc = "geocode" =>
          /\ AddressOut = ClaimedAddress(AddressIn)
          /\ AddressIn = ExampleAddress => AddressOut = <<"J", "a", "l", "a", "n", " ", "X", ",", " ", "T", "a", "m", "a", "n", " ", "Y", ",", " ", "M", "A", "L", "A", "Y", "S", "I", "A">>
          /\ AddressIn = <<>> => AddressOut = MALAYSIA

\* C10 amended: clean_address raises on no string and returns the input with each
\* newline a space, then each comma-space-comma (left to right, not overlapping)
\* replaced by one comma, then the commas at the very end removed, then the
\* surrounding whitespace, and ", MALAYSIA" appended unless already there;
\* "Jalan X,, <newline>Taman Y," becomes "Jalan X,,  Taman Y, MALAYSIA" and ""
\* becomes ", MALAYSIA".
C10_CleanAddressAmended ==
    /\ pc # "raised"
    /\ pc = "geocode" =>
          /\ AddressOut = AmendedAddress(AddressIn)
          /\ AddressIn = ExampleAddress => AddressOut = <<"J", "a", "l", "a", "n", " ", "X", ",", ",", " ", " ", "T", "a", "m", "a", "n", " ", "Y", ",", " ", "M", "A", "L", "A", "Y", "S", "I", "A">>
          /\ AddressIn = <<>> => AddressOut = MALAYSIA

\* C10 witness: the example address has been cleaned
C10_Witness ==
    /\ pc = "geocode"
    /\ AddressIn = ExampleAddress
    /\ AddressOut # AddressIn

====
